---- MODULE Spec2Model ----
(***************************************************************************)
(* The ExtJS-Direct JSON codec of src/json/server.go: the factory          *)
(* newCodecRequest and the three operations of a CodecRequest (Method,     *)
(* ReadRequest, WriteResponse), together with the parts of encoding/json   *)
(* they rely on (Decode into serverRequest, Unmarshal into a one-slot      *)
(* array, Encode of the two response structs).                             *)
(*                                                                         *)
(* JSON text is a sequence of tokens [t, v]: punctuation, insignificant    *)
(* whitespace, the literal null, numbers and string literals (v is the     *)
(* text between the quotes, as written on the wire).                       *)
(***************************************************************************)
EXTENDS Integers, Sequences, FiniteSets, TLC

VARIABLES pc, body, host, stream, sess, target, w, call, null, solo

vars == <<pc, body, host, stream, sess, target, w, call, null, solo>>

(* ------------------------------ bounds --------------------------------- *)

\* WriteResponse calls explored per session (the code itself has no limit).
MaxWrites == 2

(* --------------------------- JSON text --------------------------------- *)

Tok(t, v) == [t |-> t, v |-> v]
LB == Tok("punct", "[")
RB == Tok("punct", "]")
COMMA == Tok("punct", ",")
WS == Tok("ws", " ")
NullTok == Tok("lit", "null")
Num(n) == Tok("num", n)
Str(v) == Tok("str", v)

\* A field that does not occur in the body.
Absent == <<>>

\* The bytes of `var null = json.RawMessage([]byte("null"))`.
NullBytes == <<NullTok>>

\* string contents whose wire form differs once HTML-escaped
HTMLEscape(v) == IF v = "<" THEN "\\u003c" ELSE v
Unescape(v) == IF v = "\\u003c" THEN "<" ELSE v

\* encoding/json compact(dst, src, escape = TRUE): drops insignificant
\* whitespace and escapes <, >, & inside string literals.
RECURSIVE Compact(_)
Compact(raw) ==
    IF raw = <<>> THEN <<>>
    ELSE LET h == Head(raw)
             r == Compact(Tail(raw))
         IN  IF h.t = "ws" THEN r
             ELSE IF h.t = "str" THEN <<Str(HTMLEscape(h.v))>> \o r
             ELSE <<h>> \o r

NotSpace(tk) == tk.t # "ws"
NotComma(tk) == tk # COMMA

\* The kind of JSON value a text holds, as the decoder's scanner sees it.
JSONKind(raw) ==
    LET s == SelectSeq(raw, NotSpace)
    IN  IF s = <<>> THEN "absent"
        ELSE IF s[1] = LB THEN "array"
        ELSE IF s[1].t = "num" THEN "number"
        ELSE IF s[1].t = "str" THEN "string"
        ELSE "null"

\* The elements of a flat array text, each one token.
Elements(raw) ==
    LET s == SelectSeq(raw, NotSpace)
    IN  SelectSeq(SubSeq(s, 2, Len(s) - 1), NotComma)

(* --------------------------- errors ------------------------------------ *)

Nil == "<nil>"
ErrSyntax == "invalid character in JSON body"
UnmarshalTypeError(kind, goType) ==
    "json: cannot unmarshal " \o kind \o " into Go value of type " \o goType
UnmarshalFieldError(kind, field) ==
    "json: cannot unmarshal " \o kind \o " into Go struct field serverRequest."
        \o field \o " of type string"
ErrMissingParams == "rpc: method request ill-formed: missing params field"

(* ------------------- *json.RawMessage and Go values -------------------- *)

\* A *json.RawMessage: nil, the address of a message the decoder allocated,
\* or the address of the package variable null.
NilPtr == [ptr |-> "nil", raw |-> <<>>]
HeapPtr(raw) == [ptr |-> "heap", raw |-> raw]
AddrNull == [ptr |-> "null", raw |-> <<>>]

\* *p, where nul is the current content of the package variable null.
Deref(p, nul) == IF p.ptr = "null" THEN nul ELSE p.raw

\* A Go value of a basic type (the storage args points to, or a reply).
GoVal(type, val) == [type |-> type, val |-> val]

(* ------------------------ serverRequest -------------------------------- *)

ZeroRequest ==
    [Method |-> "", Params |-> NilPtr, Id |-> NilPtr, Type |-> "", Action |-> ""]

\* An HTTP body: either text that is not JSON, or an object holding some of
\* the five fields, each with the text of its value.
Body(valid, action, method, data, tid, type) ==
    [valid |-> valid, action |-> action, method |-> method, data |-> data,
     tid |-> tid, type |-> type]

\* Decoding a value into a string field: a string is stored unescaped; null
\* and an absent key leave the zero value; anything else is a type error.
DecodeString(raw, field) ==
    LET k == JSONKind(raw)
    IN  IF k = "string" THEN [val |-> Unescape(SelectSeq(raw, NotSpace)[1].v), err |-> Nil]
        ELSE IF k \in {"absent", "null"} THEN [val |-> "", err |-> Nil]
        ELSE [val |-> "", err |-> UnmarshalFieldError(k, field)]

\* Decoding a value into a *json.RawMessage field: null and an absent key
\* leave the pointer nil; any other value is copied byte for byte.
DecodeRaw(raw) ==
    IF JSONKind(raw) \in {"absent", "null"} THEN NilPtr ELSE HeapPtr(raw)

\* Decode followed by a check that action and method are there.
DecodeRequiringNames(b) ==
    IF ~b.valid THEN [request |-> ZeroRequest, err |-> ErrSyntax]
    ELSE LET a == DecodeString(b.action, "action")
             m == DecodeString(b.method, "method")
             t == DecodeString(b.type, "type")
         IN  [request |-> [Method |-> m.val, Params |-> DecodeRaw(b.data),
                           Id |-> DecodeRaw(b.tid), Type |-> t.val,
                           Action |-> a.val],
              err |-> IF a.err # Nil THEN a.err
                      ELSE IF m.err # Nil THEN m.err
                      ELSE IF t.err # Nil THEN t.err
                      ELSE IF a.val = "" \/ m.val = ""
                      THEN "rpc: method request ill-formed: missing action or method"
                      ELSE Nil]

\* json.NewDecoder(r.Body).Decode(req) on a fresh serverRequest.  A type
\* error is remembered (the first one) and decoding goes on.
Decode(b) ==
    IF ~b.valid THEN [request |-> ZeroRequest, err |-> ErrSyntax]
    ELSE LET a == DecodeString(b.action, "action")
             m == DecodeString(b.method, "method")
             t == DecodeString(b.type, "type")
         IN  [request |-> [Method |-> m.val, Params |-> DecodeRaw(b.data),
                           Id |-> DecodeRaw(b.tid), Type |-> t.val,
                           Action |-> a.val],
              err |-> IF a.err # Nil THEN a.err
                      ELSE IF m.err # Nil THEN m.err
                      ELSE t.err]

\* newCodecRequest without the close (a plausible slip on the error path).
newCodecRequestNoCloseOnError(b) ==
    LET d == Decode(b)
    IN  [c |-> [request |-> d.request, err |-> d.err],
         stream |-> IF d.err = Nil THEN <<"Decode", "Close">> ELSE <<"Decode">>]

\* newCodecRequest: decode the body, close it, return the session.
newCodecRequest(b) ==
    LET d == Decode(b)
    IN  [c |-> [request |-> d.request, err |-> d.err],
         stream |-> <<"Decode", "Close">>]

(* ----------------------------- Method ---------------------------------- *)

\* Method with the key cached in the request (a plausible "optimisation").
MethodCachingKey(c) ==
    IF c.err = Nil
    THEN LET key == c.request.Action \o "." \o c.request.Method
         IN  [c |-> [c EXCEPT !.request.Method = key], name |-> key, err |-> Nil]
    ELSE [c |-> c, name |-> "", err |-> c.err]

\* Method with the two halves of the key swapped.
MethodSwapped(c) ==
    IF c.err = Nil
    THEN [c |-> c, name |-> c.request.Method \o "." \o c.request.Action, err |-> Nil]
    ELSE [c |-> c, name |-> "", err |-> c.err]

\* Method(): the session, the name and the error afterwards.
Method(c) ==
    IF c.err = Nil
    THEN [c |-> c, name |-> c.request.Action \o "." \o c.request.Method, err |-> Nil]
    ELSE [c |-> c, name |-> "", err |-> c.err]

(* --------------------------- ReadRequest ------------------------------- *)

GoTypeOf(k) == IF k = "number" THEN "int" ELSE IF k = "string" THEN "string" ELSE k

\* json.Unmarshal(data, args): the payload decoded into args itself, with
\* no one-slot array around it.
UnmarshalBare(data, tgt) ==
    LET k == JSONKind(data)
    IN  IF k = "null" THEN [err |-> Nil, args |-> tgt]
        ELSE IF GoTypeOf(k) = tgt.type
        THEN [err |-> Nil, args |-> GoVal(tgt.type, Unescape(SelectSeq(data, NotSpace)[1].v))]
        ELSE [err |-> UnmarshalTypeError(k, tgt.type), args |-> tgt]

\* json.Unmarshal(data, &params) with params = [1]interface{}{args}, args a
\* pointer to the Go value tgt.  Returns the error and the value args
\* points to afterwards.
Unmarshal(data, tgt) ==
    LET k == JSONKind(data)
    IN  IF k = "null" THEN [err |-> Nil, args |-> tgt]
        ELSE IF k # "array"
        THEN [err |-> UnmarshalTypeError(k, "[1]interface {}"), args |-> tgt]
        ELSE LET es == Elements(data)
             IN  IF es = <<>> THEN [err |-> Nil, args |-> tgt]
                 ELSE LET e == es[1]
                          ek == JSONKind(<<e>>)
                      IN  IF ek = "null" THEN [err |-> Nil, args |-> tgt]
                          ELSE IF GoTypeOf(ek) = tgt.type
                          THEN [err |-> Nil, args |-> GoVal(tgt.type, Unescape(e.v))]
                          ELSE [err |-> UnmarshalTypeError(ek, tgt.type), args |-> tgt]

\* ReadRequest storing the result of Unmarshal only while the slot is
\* still empty, so that the "missing params field" error stays.
ReadRequestKeepsFirstError(c, tgt, nul) ==
    IF c.err # Nil THEN [c |-> c, args |-> tgt, err |-> c.err, null |-> nul]
    ELSE LET wasNil == c.request.Params.ptr = "nil"
             c1 == IF wasNil THEN [c EXCEPT !.request.Params = AddrNull]
                   ELSE [c EXCEPT !.err = ErrMissingParams]
             u == Unmarshal(Deref(c1.request.Params, nul), tgt)
             c2 == IF c1.err = Nil THEN [c1 EXCEPT !.err = u.err] ELSE c1
         IN  [c |-> c2, args |-> u.args, err |-> c2.err, null |-> nul]

\* ReadRequest decoding only in the branch that substitutes null, and
\* rejecting every request whose Params is set.
ReadRequestRejectsData(c, tgt, nul) ==
    IF c.err # Nil THEN [c |-> c, args |-> tgt, err |-> c.err, null |-> nul]
    ELSE IF c.request.Params.ptr = "nil"
    THEN LET c1 == [c EXCEPT !.request.Params = AddrNull]
             u == Unmarshal(Deref(c1.request.Params, nul), tgt)
         IN  [c |-> [c1 EXCEPT !.err = u.err], args |-> u.args, err |-> u.err, null |-> nul]
    ELSE [c |-> [c EXCEPT !.err = ErrMissingParams], args |-> tgt,
          err |-> ErrMissingParams, null |-> nul]

\* ReadRequest without the check of the captured error.
ReadRequestUnguarded(c, tgt, nul) ==
    LET wasNil == c.request.Params.ptr = "nil"
        c1 == IF wasNil THEN [c EXCEPT !.request.Params = AddrNull]
              ELSE [c EXCEPT !.err = ErrMissingParams]
        u == Unmarshal(Deref(c1.request.Params, nul), tgt)
        c2 == [c1 EXCEPT !.err = u.err]
    IN  [c |-> c2, args |-> u.args, err |-> c2.err, null |-> nul]

\* ReadRequest keeping the last payload in the package variable, where
\* the code keeps it in the session.
ReadRequestSharedPayload(c, tgt, nul) ==
    IF c.err # Nil THEN [c |-> c, args |-> tgt, err |-> c.err, null |-> nul]
    ELSE LET wasNil == c.request.Params.ptr = "nil"
             nul1 == IF wasNil THEN nul ELSE Deref(c.request.Params, nul)
             c1 == IF wasNil THEN [c EXCEPT !.request.Params = AddrNull]
                   ELSE [c EXCEPT !.err = ErrMissingParams]
             u == Unmarshal(Deref(c1.request.Params, nul1), tgt)
             c2 == [c1 EXCEPT !.err = u.err]
         IN  [c |-> c2, args |-> u.args, err |-> c2.err, null |-> nul1]

\* ReadRequest(args): returns the session, the value args points to, the
\* returned error and the content of the package variable null afterwards.
ReadRequest(c, tgt, nul) ==
    IF c.err # Nil THEN [c |-> c, args |-> tgt, err |-> c.err, null |-> nul]
    ELSE LET wasNil == c.request.Params.ptr = "nil"
             \* c.request.Params = &null, or c.err = errors.New(...)
             c1 == IF wasNil THEN [c EXCEPT !.request.Params = AddrNull]
                   ELSE [c EXCEPT !.err = ErrMissingParams]
             \* c.err = json.Unmarshal(*c.request.Params, &params)
             u == Unmarshal(Deref(c1.request.Params, nul), tgt)
             c2 == [c1 EXCEPT !.err = u.err]
         IN  [c |-> c2, args |-> u.args, err |-> c2.err, null |-> nul]

(* -------------------------- WriteResponse ------------------------------ *)

ContentType == "application/json; charset=utf-8"

\* A ResponseWriter: whether the transport rejects writes, and what was
\* done to it, in order.
HeaderSet(k, v) == [ev |-> "Header", key |-> k, val |-> v]
Written(b, ok) == [ev |-> "Write", body |-> b, ok |-> ok]

\* json.Marshal of a Go value; a channel has no JSON encoding.
Marshal(v) ==
    IF v.type = "int" THEN [ok |-> TRUE, text |-> <<Num(v.val)>>]
    ELSE IF v.type = "string" THEN [ok |-> TRUE, text |-> <<Str(HTMLEscape(v.val))>>]
    ELSE IF v.type = "nil" THEN [ok |-> TRUE, text |-> NullBytes]
    ELSE [ok |-> FALSE, text |-> <<>>]

\* The encoding of a *json.RawMessage field: null for a nil pointer, else
\* the compacted bytes (RawMessage.MarshalJSON, then compact).
MarshalRaw(p, nul) == IF p.ptr = "nil" THEN NullBytes ELSE Compact(Deref(p, nul))

\* json.NewEncoder(w).Encode(res): the struct is marshalled whole, then
\* written with one Write; a marshalling error writes nothing.  first is
\* the JSON key of the first field ("result" or "message").
Encode(wr, first, payload, id, type, action, method, nul) ==
    LET m == Marshal(payload)
    IN  IF ~m.ok THEN wr
        ELSE [wr EXCEPT !.log = Append(@, Written(
                 [first |-> first, payload |-> m.text, tid |-> MarshalRaw(id, nul),
                  type |-> Marshal(GoVal("string", type)).text,
                  action |-> Marshal(GoVal("string", action)).text,
                  method |-> Marshal(GoVal("string", method)).text],
                 ~wr.fail))]

SetContentType(wr) == [wr EXCEPT !.log = Append(@, HeaderSet("Content-Type", ContentType))]

\* The failure branch echoing the inbound type.
WriteErrorEchoType(c, wr, methodErr, nul) ==
    Encode(SetContentType(wr), "message", GoVal("string", methodErr),
           c.request.Id, c.request.Type, c.request.Action, c.request.Method, nul)

\* The failure branch: header, then one serverErrorResponse.
WriteError(c, wr, methodErr, nul) ==
    Encode(SetContentType(wr), "message", GoVal("string", methodErr),
           c.request.Id, "exception", c.request.Action, c.request.Method, nul)

\* The success branch setting the header once the body is out.
WriteSuccessHeaderLast(c, wr, reply, nul) ==
    IF c.request.Id.ptr = "nil" THEN wr
    ELSE SetContentType(Encode(wr, "result", reply, c.request.Id,
                               c.request.Type, c.request.Action, c.request.Method, nul))

\* The success branch with res.Id = &null done before the test of the id.
WriteSuccessNullId(c, wr, reply, nul) ==
    IF c.request.Id.ptr = "nil" THEN wr
    ELSE Encode(SetContentType(wr), "result", reply, AddrNull,
                c.request.Type, c.request.Action, c.request.Method, nul)

\* The success branch without the test of the id.
WriteSuccessAlways(c, wr, reply, nul) ==
    Encode(SetContentType(wr), "result", reply,
           IF c.request.Id.ptr = "nil" THEN AddrNull ELSE c.request.Id,
           c.request.Type, c.request.Action, c.request.Method, nul)

\* The success branch: nothing for a notification (res.Id = &null changes
\* the local response only), else header, then one serverResponse.
WriteSuccess(c, wr, reply, nul) ==
    IF c.request.Id.ptr = "nil" THEN wr
    ELSE Encode(SetContentType(wr), "result", reply, c.request.Id,
                c.request.Type, c.request.Action, c.request.Method, nul)

\* WriteResponse handing the captured error over: it returns it and
\* empties the slot.
WriteResponseClearsError(c, wr, reply, methodErr, nul) ==
    IF c.err # Nil THEN [c |-> [c EXCEPT !.err = Nil], w |-> wr, err |-> c.err]
    ELSE IF methodErr # Nil
    THEN [c |-> c, w |-> WriteError(c, wr, methodErr, nul), err |-> Nil]
    ELSE [c |-> c, w |-> WriteSuccess(c, wr, reply, nul), err |-> Nil]

\* WriteResponse keeping the method's error in the session.
WriteResponseStoresMethodErr(c, wr, reply, methodErr, nul) ==
    IF c.err # Nil THEN [c |-> c, w |-> wr, err |-> c.err]
    ELSE IF methodErr # Nil
    THEN [c |-> [c EXCEPT !.err = methodErr],
          w |-> WriteError(c, wr, methodErr, nul), err |-> Nil]
    ELSE [c |-> c, w |-> WriteSuccess(c, wr, reply, nul), err |-> Nil]

\* WriteResponse with c.request.Id = &null where the code sets res.Id.
WriteResponseStoresNullId(c, wr, reply, methodErr, nul) ==
    IF c.err # Nil THEN [c |-> c, w |-> wr, err |-> c.err]
    ELSE IF methodErr # Nil
    THEN [c |-> c, w |-> WriteError(c, wr, methodErr, nul), err |-> Nil]
    ELSE [c |-> IF c.request.Id.ptr = "nil" THEN [c EXCEPT !.request.Id = AddrNull] ELSE c,
          w |-> WriteSuccess(c, wr, reply, nul), err |-> Nil]

\* WriteResponse returning what Encode returns: the error of a reply
\* that cannot be marshalled, or of a write the transport rejects.
WriteResponseReturnsEncodeError(c, wr, reply, methodErr, nul) ==
    IF c.err # Nil THEN [c |-> c, w |-> wr, err |-> c.err]
    ELSE IF methodErr # Nil
    THEN [c |-> c, w |-> WriteError(c, wr, methodErr, nul),
          err |-> IF wr.fail THEN "write: broken pipe" ELSE Nil]
    ELSE [c |-> c, w |-> WriteSuccess(c, wr, reply, nul),
          err |-> IF c.request.Id.ptr = "nil" THEN Nil
                  ELSE IF ~Marshal(reply).ok THEN "json: unsupported type: chan int"
                  ELSE IF wr.fail THEN "write: broken pipe"
                  ELSE Nil]

\* WriteResponse testing methodErr before the captured error.
WriteResponseMethodErrFirst(c, wr, reply, methodErr, nul) ==
    IF methodErr # Nil
    THEN [c |-> c, w |-> WriteError(c, wr, methodErr, nul), err |-> Nil]
    ELSE IF c.err # Nil THEN [c |-> c, w |-> wr, err |-> c.err]
    ELSE [c |-> c, w |-> WriteSuccess(c, wr, reply, nul), err |-> Nil]

\* WriteResponse(w, reply, methodErr): the session, the writer and the
\* returned error afterwards.
WriteResponse(c, wr, reply, methodErr, nul) ==
    IF c.err # Nil THEN [c |-> c, w |-> wr, err |-> c.err]
    ELSE IF methodErr # Nil
    THEN [c |-> c, w |-> WriteError(c, wr, methodErr, nul), err |-> Nil]
    ELSE [c |-> c, w |-> WriteSuccess(c, wr, reply, nul), err |-> Nil]

(* ------------------------------ inputs --------------------------------- *)

Sessions == {"s1", "s2"}

MalformedBody == Body(FALSE, Absent, Absent, Absent, Absent, Absent)

Calc == <<Str("Calc")>>
Add == <<Str("Add")>>
Rpc == <<Str("rpc")>>

\* data: absent, null, [1], ["a"], [], [null], [1, 2], and the bare scalar 1
Datas ==
    {Absent, NullBytes, <<LB, Num("1"), RB>>, <<LB, Str("a"), RB>>, <<LB, RB>>,
     <<LB, NullTok, RB>>, <<LB, Num("1"), COMMA, WS, Num("2"), RB>>, <<Num("1")>>}

\* tid: absent, null, 1, "<", [1, 2]
Tids ==
    {Absent, NullBytes, <<Num("1")>>, <<Str("<")>>,
     <<LB, Num("1"), COMMA, WS, Num("2"), RB>>}

\* action and method: absent, empty, a name, or a value of the wrong type
Names(n) == {Absent, <<Str("")>>, n, <<Num("1")>>}

Bodies ==
    {MalformedBody}
    \cup {Body(TRUE, Calc, Add, d, t, Rpc) : d \in Datas, t \in Tids}
    \cup {Body(TRUE, a, m, NullBytes, <<Num("1")>>, Rpc) : a \in Names(Calc), m \in Names(Add)}

\* the bodies two concurrent sessions are run on
ConcBodies ==
    {MalformedBody}
    \cup {Body(TRUE, Calc, Add, d, t, Rpc) :
            d \in {NullBytes, <<LB, Num("1"), RB>>, <<Num("1")>>},
            t \in {NullBytes, <<Num("1")>>}}

\* what args points to when ReadRequest is called
Targets == {GoVal("int", "7"), GoVal("string", "x")}

\* the reply of the invoked method: 3, "<", or a value with no JSON encoding
Replies == {GoVal("int", "3"), GoVal("string", "<"), GoVal("chan", "")}

MethodErrs == {Nil, "overflow"}

\* What the host RPC server does with a request: the storage it passes to
\* ReadRequest, and the reply and error of the method it then invokes.
Host(args, reply, methodErr) == [args |-> args, reply |-> reply, methodErr |-> methodErr]
Hosts == {Host(a, r, e) : a \in Targets, r \in Replies, e \in MethodErrs}
ConcHosts == {Host(GoVal("int", "7"), GoVal("int", "3"), e) : e \in MethodErrs}

(* --------------------------- state machine ----------------------------- *)

\* What one call returned and appended to the writer's log.
Outcome(op, name, err, out) == [op |-> op, name |-> name, err |-> err, out |-> out]
NoOutcome == Outcome("none", "", Nil, <<>>)

\* The record of the last call on a session: the operation, the session
\* before it, its arguments, what it returned and wrote, and the outcome
\* of the call before it.
CallRec(op, pre, arg, methodErr, name, err, out, before) ==
    [op |-> op, pre |-> pre, arg |-> arg, methodErr |-> methodErr,
     name |-> name, err |-> err, out |-> out,
     prev |-> Outcome(before.op, before.name, before.err, before.out)]

NoCall == [op |-> "none", pre |-> [request |-> ZeroRequest, err |-> Nil],
           arg |-> GoVal("nil", ""), methodErr |-> Nil,
           name |-> "", err |-> Nil, out |-> <<>>, prev |-> NoOutcome]

\* What a call appended to a log that was n events long.
Appended(log, n) == SubSeq(log, n + 1, Len(log))

NewSession == [request |-> ZeroRequest, err |-> Nil]
NewWriter(fail) == [fail |-> fail, log |-> <<>>, calls |-> 0]

\* The same session run alone, with a package variable null of its own.
Alone(c, t, wr, cl) == [c |-> c, target |-> t, w |-> wr, call |-> cl]

InitCommon ==
    /\ stream = [s \in Sessions |-> <<>>]
    /\ sess = [s \in Sessions |-> NewSession]
    /\ target = [s \in Sessions |-> GoVal("nil", "")]
    /\ call = [s \in Sessions |-> NoCall]
    /\ null = NullBytes
    /\ solo = [s \in Sessions |-> Alone(sess[s], target[s], w[s], call[s])]

\* One request is served.
Init ==
    /\ pc = [s \in Sessions |-> IF s = "s1" THEN "new" ELSE "idle"]
    /\ \E b \in Bodies : body = [s \in Sessions |-> IF s = "s1" THEN b ELSE MalformedBody]
    /\ \E h \in Hosts : host = [s \in Sessions |-> h]
    /\ \E f \in BOOLEAN : w = [s \in Sessions |-> NewWriter(f /\ s = "s1")]
    /\ InitCommon

\* Two requests are served concurrently, each by its own goroutine.
InitConc ==
    /\ pc = [s \in Sessions |-> "new"]
    /\ body \in [Sessions -> ConcBodies]
    /\ host \in [Sessions -> ConcHosts]
    /\ w = [s \in Sessions |-> NewWriter(FALSE)]
    /\ InitCommon

NewRequest(s) ==
    /\ pc[s] = "new"
    /\ LET r == newCodecRequest(body[s])
           cl == CallRec("NewRequest", sess[s], GoVal("nil", ""), Nil, "", Nil, <<>>, call[s])
       IN  /\ sess' = [sess EXCEPT ![s] = r.c]
           /\ stream' = [stream EXCEPT ![s] = @ \o r.stream]
           /\ call' = [call EXCEPT ![s] = cl]
           /\ solo' = [solo EXCEPT ![s] = Alone(r.c, target[s], w[s], cl)]
    /\ pc' = [pc EXCEPT ![s] = "live"]
    /\ UNCHANGED <<body, host, target, w, null>>

CallMethod(s) ==
    /\ pc[s] = "live"
    /\ LET r == Method(sess[s])
           a == Method(solo[s].c)
       IN  /\ sess' = [sess EXCEPT ![s] = r.c]
           /\ call' = [call EXCEPT ![s] =
                 CallRec("Method", sess[s], GoVal("nil", ""), Nil, r.name, r.err, <<>>, call[s])]
           /\ solo' = [solo EXCEPT ![s] =
                 Alone(a.c, solo[s].target, solo[s].w,
                       CallRec("Method", solo[s].c, GoVal("nil", ""), Nil, a.name, a.err,
                               <<>>, solo[s].call))]
    /\ UNCHANGED <<pc, body, host, stream, target, w, null>>

CallReadRequest(s) ==
    /\ pc[s] = "live"
    /\ LET tgt == host[s].args
           r == ReadRequest(sess[s], tgt, null)
           a == ReadRequest(solo[s].c, tgt, NullBytes)
       IN  /\ sess' = [sess EXCEPT ![s] = r.c]
           /\ target' = [target EXCEPT ![s] = r.args]
           /\ null' = r.null
           /\ call' = [call EXCEPT ![s] =
                 CallRec("ReadRequest", sess[s], tgt, Nil, "", r.err, <<>>, call[s])]
           /\ solo' = [solo EXCEPT ![s] =
                 Alone(a.c, a.args, solo[s].w,
                       CallRec("ReadRequest", solo[s].c, tgt, Nil, "", a.err, <<>>,
                               solo[s].call))]
    /\ UNCHANGED <<pc, body, host, stream, w>>

CallWriteResponse(s) ==
    /\ pc[s] = "live"
    /\ w[s].calls < MaxWrites
    /\ LET reply == host[s].reply
           methodErr == host[s].methodErr
           r == WriteResponse(sess[s], w[s], reply, methodErr, null)
           a == WriteResponse(solo[s].c, solo[s].w, reply, methodErr, NullBytes)
       IN  /\ sess' = [sess EXCEPT ![s] = r.c]
           /\ w' = [w EXCEPT ![s] = [r.w EXCEPT !.calls = @ + 1]]
           /\ call' = [call EXCEPT ![s] =
                 CallRec("WriteResponse", sess[s], reply, methodErr, "", r.err,
                         Appended(r.w.log, Len(w[s].log)), call[s])]
           /\ solo' = [solo EXCEPT ![s] =
                 Alone(a.c, solo[s].target, [a.w EXCEPT !.calls = @ + 1],
                       CallRec("WriteResponse", solo[s].c, reply, methodErr, "", a.err,
                               Appended(a.w.log, Len(solo[s].w.log)), solo[s].call))]
    /\ UNCHANGED <<pc, body, host, stream, target, null>>

Next ==
    \E s \in Sessions :
        \/ NewRequest(s)
        \/ CallMethod(s)
        \/ CallReadRequest(s)
        \/ CallWriteResponse(s)

Spec == Init /\ [][Next]_vars

SpecConc == InitConc /\ [][Next]_vars

(* ------------------------- reading the state --------------------------- *)

IsWrite(e) == e.ev = "Write"
IsHeader(e) == e.ev = "Header"

\* The bodies and the headers the last call on s handed to the writer.
BodiesOf(s) == SelectSeq(call[s].out, IsWrite)
HeadersOf(s) == SelectSeq(call[s].out, IsHeader)

\* The JSON value a text denotes: the text without insignificant
\* whitespace and with every string unescaped.
JSONValue(raw) ==
    LET t == SelectSeq(raw, NotSpace)
    IN  [i \in 1..Len(t) |-> IF t[i].t = "str" THEN Str(Unescape(t[i].v)) ELSE t[i]]

\* A text with no insignificant whitespace and no character that the
\* encoder escapes.
Plain(raw) == \A i \in 1..Len(raw) : raw[i].t # "ws" /\ raw[i].v # "<"

\* The JSON value of a Go value, and whether it has one.
Encodable(v) == v.type \in {"int", "string", "nil"}
ValueOf(v) ==
    IF v.type = "int" THEN <<Num(v.val)>>
    ELSE IF v.type = "string" THEN <<Str(v.val)>>
    ELSE NullBytes

\* The last call on s was WriteResponse on a session without a captured error.
Wrote(s) == call[s].op = "WriteResponse" /\ call[s].pre.err = Nil
HasTid(s) == call[s].pre.request.Id.ptr # "nil"
RawTid(s) == call[s].pre.request.Id.raw

\* The body b echoes action and method of the request of s.
EchoesCall(b, s) ==
    /\ JSONValue(b.action) = <<Str(call[s].pre.request.Action)>>
    /\ JSONValue(b.method) = <<Str(call[s].pre.request.Method)>>

(* ------------------------------ claims --------------------------------- *)

\* C1 as stated: a successful WriteResponse on a request with a non-null
\* tid writes exactly one body, whose tid is the raw tid of the request,
\* byte for byte, whose result is reply and whose type, action and method
\* are the request's.  (Read for the replies that have a JSON encoding.)
C1_TidBytesUnchanged ==
    \A s \in Sessions :
        (Wrote(s) /\ HasTid(s) /\ call[s].methodErr = Nil /\ Encodable(call[s].arg)) =>
            /\ Len(BodiesOf(s)) = 1
            /\ LET b == BodiesOf(s)[1].body
               IN  /\ b.first = "result"
                   /\ b.tid = RawTid(s)
                   /\ JSONValue(b.payload) = ValueOf(call[s].arg)
                   /\ JSONValue(b.type) = <<Str(call[s].pre.request.Type)>>
                   /\ EchoesCall(b, s)

\* C1 amended: a successful WriteResponse on a request with a non-null tid
\* and a reply that has a JSON encoding writes exactly one body; its tid is
\* the same JSON value as the request's tid, in compact form (no
\* insignificant whitespace, <, >, & escaped), hence byte for byte the raw
\* tid when that is already in this form; its result is reply and its
\* type, action and method are the request's.  A reply without a JSON
\* encoding writes no body.
C1_TidSameValue ==
    \A s \in Sessions :
        (Wrote(s) /\ HasTid(s) /\ call[s].methodErr = Nil) =>
            IF Encodable(call[s].arg)
            THEN /\ Len(BodiesOf(s)) = 1
                 /\ LET b == BodiesOf(s)[1].body
                    IN  /\ b.first = "result"
                        /\ JSONValue(b.tid) = JSONValue(RawTid(s))
                        /\ Plain(b.tid)
                        /\ Plain(RawTid(s)) => b.tid = RawTid(s)
                        /\ JSONValue(b.payload) = ValueOf(call[s].arg)
                        /\ JSONValue(b.type) = <<Str(call[s].pre.request.Type)>>
                        /\ EchoesCall(b, s)
            ELSE BodiesOf(s) = <<>>

\* C1 witness: a success body was written for a tid that is not in
\* compact form.
C1_Witness ==
    \E s \in Sessions :
        /\ Wrote(s) /\ HasTid(s) /\ call[s].methodErr = Nil
        /\ ~Plain(RawTid(s))
        /\ Len(BodiesOf(s)) = 1

\* C2: WriteResponse with a method error on a session without a captured
\* error writes exactly one failure body, for a null tid too: its type is
\* "exception", its message the error's text, its action and method the
\* request's, its tid the request's tid (null for a notification).
C2_FailureBody ==
    \A s \in Sessions :
        (Wrote(s) /\ call[s].methodErr # Nil) =>
            /\ Len(BodiesOf(s)) = 1
            /\ LET b == BodiesOf(s)[1].body
               IN  /\ b.first = "message"
                   /\ JSONValue(b.payload) = <<Str(call[s].methodErr)>>
                   /\ JSONValue(b.type) = <<Str("exception")>>
                   /\ JSONValue(b.tid) =
                        IF HasTid(s) THEN JSONValue(RawTid(s)) ELSE NullBytes
                   /\ EchoesCall(b, s)

\* C2 witness: a failure body written for a notification.
C2_Witness ==
    \E s \in Sessions :
        /\ Wrote(s) /\ call[s].methodErr # Nil /\ ~HasTid(s)
        /\ Len(BodiesOf(s)) = 1
        /\ call[s].pre.request.Type = "rpc"

\* C3: a successful WriteResponse on a notification (null tid, no captured
\* error, no method error) hands nothing to the writer, neither a header
\* nor a body, and returns nil.
C3_NotificationSilent ==
    \A s \in Sessions :
        (Wrote(s) /\ ~HasTid(s) /\ call[s].methodErr = Nil) =>
            /\ call[s].out = <<>>
            /\ call[s].err = Nil

\* C3 witness: WriteResponse succeeded on a notification.
C3_Witness ==
    \E s \in Sessions :
        /\ Wrote(s) /\ ~HasTid(s) /\ call[s].methodErr = Nil
        /\ body[s].valid

\* C4: WriteResponse on a session with a captured error returns that error
\* and hands nothing to the writer, whatever reply and methodErr are.
C4_CapturedErrorReturned ==
    \A s \in Sessions :
        (call[s].op = "WriteResponse" /\ call[s].pre.err # Nil) =>
            /\ call[s].err = call[s].pre.err
            /\ call[s].out = <<>>
            /\ sess[s].err = call[s].pre.err

\* C4 witness: WriteResponse called with a method error on a session whose
\* error was captured by ReadRequest (the body itself decoded cleanly).
C4_Witness ==
    \E s \in Sessions :
        /\ call[s].op = "WriteResponse" /\ call[s].pre.err # Nil
        /\ call[s].methodErr # Nil
        /\ call[s].prev.op = "ReadRequest"
        /\ Decode(body[s]).err = Nil

\* C5: Method returns (action.method, nil) on a session without a captured
\* error, and ("", the captured error) on a session with one.
C5_MethodResult ==
    \A s \in Sessions :
        call[s].op = "Method" =>
            IF call[s].pre.err = Nil
            THEN /\ call[s].name = call[s].pre.request.Action \o "." \o call[s].pre.request.Method
                 /\ call[s].err = Nil
            ELSE /\ call[s].name = ""
                 /\ call[s].err = call[s].pre.err

\* C5 witness: Method returned the key Calc.Add.
C5_Witness ==
    \E s \in Sessions :
        /\ call[s].op = "Method" /\ call[s].pre.err = Nil
        /\ call[s].pre.request.Action = "Calc"
        /\ call[s].name = "Calc.Add"

\* C6: Method is pure: it leaves the session (request and error slot) as
\* it was, and a second call in a row returns the same name and error.
C6_MethodPure ==
    \A s \in Sessions :
        call[s].op = "Method" =>
            /\ sess[s] = call[s].pre
            /\ call[s].prev.op = "Method" =>
                 /\ call[s].name = call[s].prev.name
                 /\ call[s].err = call[s].prev.err

\* C6 witness: Method was called twice in a row and returned a key.
C6_Witness ==
    \E s \in Sessions :
        /\ call[s].op = "Method" /\ call[s].prev.op = "Method"
        /\ call[s].name = "Calc.Add"

\* C7: ReadRequest on a session with a captured error returns that error
\* and leaves both the caller's target and the session as they were.
C7_ReadRequestShortCircuit ==
    \A s \in Sessions :
        (call[s].op = "ReadRequest" /\ call[s].pre.err # Nil) =>
            /\ call[s].err = call[s].pre.err
            /\ target[s] = call[s].arg
            /\ sess[s] = call[s].pre

\* C7 witness: ReadRequest called on a session built from a malformed body.
C7_Witness ==
    \E s \in Sessions :
        /\ call[s].op = "ReadRequest"
        /\ call[s].pre.err = ErrSyntax
        /\ ~body[s].valid

\* C8 as stated: when data is absent or null and the session holds no
\* captured error, ReadRequest binds the target to null, so the target
\* does not hold afterwards the value it held before.
C8_NullDataRebindsTarget ==
    \A s \in Sessions :
        (/\ call[s].op = "ReadRequest"
         /\ call[s].pre.err = Nil
         /\ JSONKind(body[s].data) \in {"absent", "null"}) =>
            target[s] # call[s].arg

\* C9: the factory returns a session for every body and reports nothing
\* itself; it reads the body and then closes it, once; a body that is not
\* JSON leaves its error in the session, and nothing is written.
C9_FactoryClosesBody ==
    \A s \in Sessions :
        /\ pc[s] = "live" => stream[s] = <<"Decode", "Close">>
        /\ pc[s] # "live" => stream[s] = <<>>
        /\ call[s].op = "NewRequest" =>
             /\ pc[s] = "live"
             /\ call[s].err = Nil
             /\ w[s].log = <<>>
             /\ body[s].valid = FALSE => sess[s].err # Nil
             /\ (body[s].valid /\ \A f \in {body[s].action, body[s].method, body[s].type} :
                                     JSONKind(f) \in {"absent", "null", "string"})
                  => sess[s].err = Nil

\* C9 witness: the factory returned a session for a malformed body, whose
\* stream is closed.
C9_Witness ==
    \E s \in Sessions :
        /\ call[s].op = "NewRequest"
        /\ ~body[s].valid
        /\ sess[s].err # Nil
        /\ stream[s] = <<"Decode", "Close">>

\* C10: sessions share no mutable state: with two sessions interleaved,
\* each session, its target, its writer and the outcome of each of its
\* calls are what they are when the session runs alone, and the package
\* variable null holds the bytes null in every reachable state.
C10_SessionsIndependent ==
    /\ null = NullBytes
    /\ \A s \in Sessions : solo[s] = Alone(sess[s], target[s], w[s], call[s])

\* C10 witness: both sessions point their data at the package variable
\* null, one has since written its response and the other decoded again.
C10_Witness ==
    /\ sess["s1"].request.Params = AddrNull
    /\ sess["s2"].request.Params = AddrNull
    /\ call["s1"].op = "WriteResponse"
    /\ call["s2"].op = "ReadRequest" /\ call["s2"].prev.op = "ReadRequest"

\* The last call on s was ReadRequest on a session without a captured
\* error whose request carries a data field that is not null.
ReadData(s) ==
    /\ call[s].op = "ReadRequest"
    /\ call[s].pre.err = Nil
    /\ call[s].pre.request.Params.ptr = "heap"
DataOf(s) == SelectSeq(body[s].data, NotSpace)

\* The first element of the data array fits the target of the call.
FirstFits(s) ==
    \/ DataOf(s)[2].t = "num" /\ call[s].arg.type = "int"
    \/ DataOf(s)[2].t = "str" /\ call[s].arg.type = "string"

\* C11 as stated: ReadRequest rejects every request whose data is present
\* and not null: it returns the "missing params field" error, which stays
\* in the session.
C11_DataRejected ==
    \A s \in Sessions :
        ReadData(s) =>
            /\ call[s].err = ErrMissingParams
            /\ sess[s].err = ErrMissingParams

\* C11 amended: for a request whose data is present and not null the
\* "missing params field" error is neither returned nor left in the
\* session: ReadRequest returns, and stores in the error slot, the result
\* of decoding data into the one-slot array, which is nil exactly when data
\* is an array that is empty or whose first element is null or fits the
\* target.
C11_DataDecoded ==
    \A s \in Sessions :
        ReadData(s) =>
            /\ call[s].err # ErrMissingParams
            /\ sess[s].err = call[s].err
            /\ call[s].err = Nil <=>
                 /\ DataOf(s)[1] = LB
                 /\ \/ DataOf(s)[2] = RB
                    \/ DataOf(s)[2] = NullTok
                    \/ FirstFits(s)

\* C11 witness: ReadRequest accepted the data [1] and returned nil.
C11_Witness ==
    \E s \in Sessions :
        /\ ReadData(s)
        /\ body[s].data = <<LB, Num("1"), RB>>
        /\ call[s].err = Nil /\ sess[s].err = Nil

\* C12: arguments are unwrapped from a one-element array: with no captured
\* error and data = [arg], arg fitting the target, ReadRequest binds the
\* target to arg, returns nil and leaves the error slot empty; with data
\* that is not null and not an array it returns a decode error, captures it
\* and leaves the target as it was.
C12_ArgsUnwrapped ==
    \A s \in Sessions :
        ReadData(s) =>
            /\ (Len(DataOf(s)) = 3 /\ DataOf(s)[1] = LB /\ FirstFits(s)) =>
                 /\ target[s] = GoVal(call[s].arg.type, DataOf(s)[2].v)
                 /\ call[s].err = Nil
                 /\ sess[s].err = Nil
            /\ DataOf(s)[1] # LB =>
                 /\ call[s].err \notin {Nil, ErrMissingParams}
                 /\ sess[s].err = call[s].err
                 /\ target[s] = call[s].arg

\* C12 witness: the string target was bound to the element of ["a"].
C12_Witness ==
    \E s \in Sessions :
        /\ ReadData(s)
        /\ body[s].data = <<LB, Str("a"), RB>>
        /\ call[s].arg = GoVal("string", "x")
        /\ target[s] = GoVal("string", "a")

SessionOps == {"Method", "ReadRequest", "WriteResponse"}

\* C13: a captured error is never cleared or replaced, and every operation
\* on a session that holds one returns it: in every step from a state
\* where the slot of s is set, the slot keeps its value, and a call made on
\* s in that step returns the error, an empty name, and writes nothing.
C13_ErrorSticky ==
    [][\A s \in Sessions :
         sess[s].err # Nil =>
            /\ sess'[s].err = sess[s].err
            /\ w'[s].log = w[s].log
            /\ call'[s] # call[s] =>
                 /\ call'[s].op \in SessionOps
                 /\ call'[s].err = sess[s].err
                 /\ call'[s].name = ""
                 /\ call'[s].out = <<>>]_vars

\* C13 witness: the error captured by ReadRequest was returned again by
\* WriteResponse and then by Method.
C13_Witness ==
    \E s \in Sessions :
        /\ Decode(body[s]).err = Nil
        /\ call[s].op = "Method" /\ call[s].prev.op = "WriteResponse"
        /\ call[s].err # Nil
        /\ call[s].err = call[s].prev.err
        /\ call[s].name = ""

\* C14 as stated: the error slot is set at construction only; no session
\* operation changes it.
C14_SlotSetOnce ==
    \A s \in Sessions :
        call[s].op \in SessionOps => sess[s].err = call[s].pre.err

\* C14 amended: the error slot is set at construction and by ReadRequest:
\* Method and WriteResponse never change it, and ReadRequest changes it
\* only while it is empty, storing the error of the argument decode (nil
\* included); a slot that holds an error is never changed.
C14_SlotSetByDecode ==
    \A s \in Sessions :
        /\ call[s].op \in {"Method", "WriteResponse"} => sess[s].err = call[s].pre.err
        /\ call[s].op = "ReadRequest" =>
             IF call[s].pre.err # Nil THEN sess[s].err = call[s].pre.err
             ELSE sess[s].err = call[s].err

\* C14 witness: ReadRequest put an error in a slot that was empty after
\* construction.
C14_Witness ==
    \E s \in Sessions :
        /\ call[s].op = "ReadRequest" /\ call[s].prev.op = "NewRequest"
        /\ call[s].pre.err = Nil
        /\ sess[s].err # Nil

TheHeader == HeaderSet("Content-Type", ContentType)

\* C15 as stated: in every WriteResponse call the Content-Type header is
\* set if and only if a body is written; it is then set once, to
\* application/json; charset=utf-8, before the body.
C15_HeaderIffBody ==
    \A s \in Sessions :
        call[s].op = "WriteResponse" =>
            /\ HeadersOf(s) # <<>> <=> BodiesOf(s) # <<>>
            /\ HeadersOf(s) # <<>> =>
                 /\ call[s].out[1] = TheHeader
                 /\ Len(call[s].out) = 2 /\ IsWrite(call[s].out[2])

\* C15 amended: in every WriteResponse call that writes a body the
\* Content-Type header is set just before it, to application/json;
\* charset=utf-8; the header is set exactly when the session holds no
\* captured error and the call has a method error or a non-null tid; it is
\* set with no body after it exactly when the reply of a successful call
\* has no JSON encoding.
C15_HeaderBeforeBody ==
    \A s \in Sessions :
        call[s].op = "WriteResponse" =>
            /\ BodiesOf(s) # <<>> =>
                 /\ Len(call[s].out) = 2
                 /\ call[s].out[1] = TheHeader
                 /\ IsWrite(call[s].out[2])
            /\ HeadersOf(s) # <<>> <=>
                 (call[s].pre.err = Nil /\ (call[s].methodErr # Nil \/ HasTid(s)))
            /\ (HeadersOf(s) # <<>> /\ BodiesOf(s) = <<>>) <=>
                 /\ call[s].out = <<TheHeader>>
                 /\ Wrote(s) /\ HasTid(s) /\ call[s].methodErr = Nil
                 /\ ~Encodable(call[s].arg)

\* C15 witness: a success body went out, the header just before it.
C15_Witness ==
    \E s \in Sessions :
        /\ call[s].op = "WriteResponse" /\ call[s].methodErr = Nil
        /\ Len(call[s].out) = 2
        /\ call[s].out[1] = TheHeader
        /\ IsWrite(call[s].out[2]) /\ call[s].out[2].body.first = "result"

\* The text of a name on the wire, as a Go string ("" when the key is
\* missing).
WireName(raw) == IF raw = Absent THEN "" ELSE raw[1].v

\* The body of s is an object whose action or method is missing or empty,
\* the other one, if there, being a string.
LacksName(s) ==
    /\ body[s].valid
    /\ JSONKind(body[s].action) \in {"absent", "string"}
    /\ JSONKind(body[s].method) \in {"absent", "string"}
    /\ JSONKind(body[s].type) \in {"absent", "string"}
    /\ WireName(body[s].action) = "" \/ WireName(body[s].method) = ""

\* C16: a valid JSON body without action or method (or with an empty one)
\* is accepted at construction: the session holds no captured error, and
\* Method returns action.method with the missing part empty, and no error.
C16_MissingNamesAccepted ==
    \A s \in Sessions :
        LacksName(s) =>
            /\ call[s].op = "NewRequest" => sess[s].err = Nil
            /\ (call[s].op = "Method" /\ call[s].prev.op = "NewRequest") =>
                 /\ call[s].err = Nil
                 /\ call[s].name =
                      WireName(body[s].action) \o "." \o WireName(body[s].method)

\* C16 witness: Method returned the key .Add for a body without action.
C16_Witness ==
    \E s \in Sessions :
        /\ LacksName(s) /\ body[s].action = Absent
        /\ call[s].op = "Method" /\ call[s].prev.op = "NewRequest"
        /\ call[s].name = ".Add"

\* C17: WriteResponse never modifies the session: request and error slot
\* are after the call what they were before it, on the notification path
\* too; hence a second call with the same arguments returns and writes
\* what the first did (a duplicate body, or nothing again).
C17_WriteResponseKeepsSession ==
    \A s \in Sessions :
        call[s].op = "WriteResponse" =>
            /\ sess[s] = call[s].pre
            /\ call[s].prev.op = "WriteResponse" =>
                 /\ call[s].out = call[s].prev.out
                 /\ call[s].err = call[s].prev.err
                 /\ Appended(w[s].log, Len(w[s].log) - 2 * Len(call[s].out))
                      = call[s].prev.out \o call[s].out

\* C17 witness: a second WriteResponse on a notification wrote nothing
\* again, the tid of the session still nil.
C17_Witness ==
    \E s \in Sessions :
        /\ Wrote(s) /\ call[s].prev.op = "WriteResponse"
        /\ call[s].methodErr = Nil
        /\ sess[s].request.Id = NilPtr
        /\ w[s].log = <<>> /\ w[s].calls = 2

\* C18: on a session without a captured error WriteResponse returns nil
\* and leaves the error slot empty whatever becomes of the body: a write
\* the transport rejects and a reply that cannot be encoded are neither
\* returned nor stored.
C18_EncodeErrorsDropped ==
    \A s \in Sessions :
        Wrote(s) =>
            /\ call[s].err = Nil
            /\ sess[s].err = Nil
            /\ (HasTid(s) /\ call[s].methodErr = Nil /\ ~Encodable(call[s].arg)) =>
                 BodiesOf(s) = <<>>
            /\ \A i \in 1..Len(BodiesOf(s)) : BodiesOf(s)[i].ok = ~w[s].fail

\* C18 witness: the transport rejected the body and WriteResponse
\* returned nil.
C18_Witness ==
    \E s \in Sessions :
        /\ Wrote(s) /\ w[s].fail
        /\ Len(BodiesOf(s)) = 1 /\ ~BodiesOf(s)[1].ok
        /\ call[s].err = Nil

\* C19: ReadRequest is idempotent: a second call in a row, with a target
\* like the first's, returns the error (or nil) the first returned and
\* leaves the error slot as the first left it, whatever data is, also when
\* the first call replaced a nil Params by &null.
C19_ReadRequestIdempotent ==
    \A s \in Sessions :
        (call[s].op = "ReadRequest" /\ call[s].prev.op = "ReadRequest") =>
            /\ call[s].err = call[s].prev.err
            /\ sess[s].err = call[s].pre.err
            /\ sess[s] = call[s].pre
            /\ target[s] = IF call[s].err = Nil /\ ReadData(s) /\ DataOf(s)[2] \notin {RB, NullTok}
                           THEN GoVal(call[s].arg.type, DataOf(s)[2].v)
                           ELSE call[s].arg

\* C19 witness: the second ReadRequest on a request without data found
\* Params pointing at null and returned nil like the first.
C19_Witness ==
    \E s \in Sessions :
        /\ call[s].op = "ReadRequest" /\ call[s].prev.op = "ReadRequest"
        /\ JSONKind(body[s].data) \in {"absent", "null"}
        /\ call[s].pre.request.Params = AddrNull
        /\ call[s].pre.err = Nil
        /\ call[s].err = Nil

====
